---- MODULE Spec2Model ----
(***************************************************************************)
(* Model of the stream state machine of squash/stream.c:                   *)
(* squash_stream_init, squash_stream_destroy and                           *)
(* squash_stream_process_internal with its three drivers                   *)
(* squash_stream_process / _flush / _finish.                               *)
(*                                                                         *)
(* One stream is modelled.  Its fields are the variables; the codec's      *)
(* SquashCodecFuncs table is fixed when the stream is created.  A driver   *)
(* call is one action: the whole of squash_stream_process_internal, the    *)
(* escalation loop included.  What a plugin callback does (how much it     *)
(* consumes, how much it writes, which status it returns) is drawn from    *)
(* every possibility the buffers allow.                                    *)
(***************************************************************************)
EXTENDS Integers, Sequences, FiniteSets, TLC

(* ---------------------------- bounds ----------------------------------- *)
\* largest buffer length the caller hands over in one go
MaxAvail == 2
\* the caller stops supplying bytes once a total would pass this
MaxTotal == 2
\* most references to the options held elsewhere when the stream is made
MaxHolders == 2
\* width of size_t in the model (the program's is 64); SizeMod > MaxTotal,
\* so a total wraps only where the code subtracts below zero
SizeBits == 2
SizeMod == 2 ^ SizeBits

(* ---------------------------- constants -------------------------------- *)
\* SquashStreamState, in the order the comparisons of lines 344-346 rely on
SQUASH_STREAM_STATE_IDLE == 0
SQUASH_STREAM_STATE_RUNNING == 1
SQUASH_STREAM_STATE_FLUSHING == 2
SQUASH_STREAM_STATE_FINISHING == 3
SQUASH_STREAM_STATE_FINISHED == 4
StreamStates == SQUASH_STREAM_STATE_IDLE .. SQUASH_STREAM_STATE_FINISHED

\* the `operation` argument of squash_stream_process_internal
OP_PROCESS == 0
OP_FLUSH == 1
OP_FINISH == 2

\* SquashStatus
SQUASH_OK == "SQUASH_OK"
SQUASH_PROCESSING == "SQUASH_PROCESSING"
SQUASH_END_OF_STREAM == "SQUASH_END_OF_STREAM"
SQUASH_BUFFER_FULL == "SQUASH_BUFFER_FULL"
SQUASH_INVALID_OPERATION == "SQUASH_INVALID_OPERATION"
SQUASH_STATE == "SQUASH_STATE"
\* any codec-specific failure code
SQUASH_FAILED == "SQUASH_FAILED"
Status == {SQUASH_OK, SQUASH_PROCESSING, SQUASH_END_OF_STREAM, SQUASH_BUFFER_FULL,
           SQUASH_INVALID_OPERATION, SQUASH_STATE, SQUASH_FAILED}

\* `SquashStatus res;` is declared without an initializer (line 311)
UNINITIALIZED == "uninitialized"
\* reading an uninitialized res yields any value
ReadRes(res) == IF res = UNINITIALIZED THEN Status ELSE {res}

(* ---------------------------- pointers --------------------------------- *)
\* a pointer is a base object and an offset into it
NULL == [base |-> "null", off |-> 0]
\* the caller's input and output buffers
InBuf == [base |-> "in", off |-> 0]
OutBuf == [base |-> "out", off |-> 0]
\* &output_sbb, the single byte on the stack of the call (line 398)
output_sbb == [base |-> "output_sbb", off |-> 0]
\* a SquashOptions object, a caller's user data and its SquashDestroyNotify
Options == [base |-> "options", off |-> 0]
UserData == [base |-> "user_data", off |-> 0]
Destructor == [base |-> "destroy_user_data", off |-> 0]
PtrAdd(p, n) == IF n = 0 THEN p ELSE [p EXCEPT !.off = @ + n]

(* ---------------------------- the codec -------------------------------- *)
\* SquashCodecFuncs: which of the three optional callbacks are non-NULL
CodecFuncs == [process_stream : BOOLEAN, flush_stream : BOOLEAN, finish_stream : BOOLEAN]

\* the statuses a callback returns: the three the loop interprets, and two
\* of those it does not (a codec-specific failure stands for all the others)
CodecStatus == {SQUASH_OK, SQUASH_PROCESSING, SQUASH_END_OF_STREAM, SQUASH_BUFFER_FULL,
                SQUASH_FAILED}

\* what one callback may do with the stream it is handed: consume some of
\* the input, write some of the output room, return a status
Outcomes(s) == [st : CodecStatus, cin : 0 .. s.avail_in, cout : 0 .. s.avail_out]

Invoke(s, o) ==
  [s EXCEPT !.next_in = PtrAdd(@, o.cin), !.avail_in = @ - o.cin,
            !.next_out = PtrAdd(@, o.cout), !.avail_out = @ - o.cout]

\* every result of calling the entry point fn on s
Call(s, fn) ==
  {[s |-> Invoke(s, o), res |-> o.st, fn |-> fn, ret |-> o.st, uninit |-> FALSE] :
     o \in Outcomes(s)}

\* a level that calls nothing and leaves res at r
NoCall(s, r) == [s |-> s, res |-> r, fn |-> "none", ret |-> "none", uninit |-> FALSE]

VARIABLES
  state, next_in, avail_in, total_in, next_out, avail_out, total_out,
  funcs,  \* the codec's SquashCodecFuncs
  call,   \* the last driver call: its request, entry values, steps and result
  options, user_data, destroy_user_data,
  ref_count,         \* the reference count of the options object
  ref_before,        \* what it was before squash_stream_init
  destructor_calls,  \* how often destroy_user_data has been called
  destroyed          \* squash_stream_destroy has run

\* the fields and the bookkeeping the drivers never touch
lifeVars == <<options, user_data, destroy_user_data, ref_count, ref_before,
              destructor_calls, destroyed>>

vars == <<state, next_in, avail_in, total_in, next_out, avail_out, total_out, funcs, call,
          options, user_data, destroy_user_data, ref_count, ref_before,
          destructor_calls, destroyed>>

\* the stream fields as one record
Stream ==
  [state |-> state, next_in |-> next_in, avail_in |-> avail_in, total_in |-> total_in,
   next_out |-> next_out, avail_out |-> avail_out, total_out |-> total_out]

(* ------------- squash_stream_process_internal, piece by piece ---------- *)
\* FlushUnsupported with the check left out
FlushUnsupported_Dropped(operation, f) == FALSE

\* FlushUnsupported testing the wrong operation number
FlushUnsupported_WrongOp(operation, f) == operation = 2 /\ ~f.flush_stream

\* lines 320-324: flush requested but the codec has no flush_stream
FlushUnsupported(operation, f) == operation = 1 /\ ~f.flush_stream
\* PassedLevel with the Process threshold one state too low
PassedLevel_OffByOne(operation, st) ==
  \/ operation = 0 /\ st > SQUASH_STREAM_STATE_IDLE
  \/ operation = 1 /\ st > SQUASH_STREAM_STATE_FLUSHING
  \/ operation = 2 /\ st > SQUASH_STREAM_STATE_FINISHING

\* lines 344-348: the stream is already past the requested level
PassedLevel(operation, st) ==
  \/ operation = 0 /\ st > SQUASH_STREAM_STATE_RUNNING
  \/ operation = 1 /\ st > SQUASH_STREAM_STATE_FLUSHING
  \/ operation = 2 /\ st > SQUASH_STREAM_STATE_FINISHING

\* CurrentOperation placing a Flushing stream at the Finish level
CurrentOperation_FlushingTooFar(st) ==
  CASE st = SQUASH_STREAM_STATE_IDLE -> 0
    [] st = SQUASH_STREAM_STATE_RUNNING -> 0
    [] st = SQUASH_STREAM_STATE_FLUSHING -> 2
    [] st = SQUASH_STREAM_STATE_FINISHING -> 2
    [] st = SQUASH_STREAM_STATE_FINISHED -> 3

\* lines 350-364: the level the stream is at
CurrentOperation(st) ==
  CASE st = SQUASH_STREAM_STATE_IDLE -> 0
    [] st = SQUASH_STREAM_STATE_RUNNING -> 0
    [] st = SQUASH_STREAM_STATE_FLUSHING -> 1
    [] st = SQUASH_STREAM_STATE_FINISHING -> 2
    [] st = SQUASH_STREAM_STATE_FINISHED -> 3

\* lines 397-403: with no output room the codec is handed &output_sbb;
\* saved is the local next_out, which stays NULL otherwise
ProbeInstall(s) ==
  IF s.avail_out = 0
    THEN [saved |-> s.next_out, s |-> [s EXCEPT !.avail_out = 1, !.next_out = output_sbb]]
    ELSE [saved |-> NULL, s |-> s]

\* ProcessLevel with the test of process_stream the wrong way round
ProcessLevel_Inverted(s, f) ==
  IF s.avail_in = 0 /\ s.state = SQUASH_STREAM_STATE_IDLE
    THEN {NoCall(s, SQUASH_OK)}
    ELSE IF ~f.process_stream
      THEN Call(s, "process_stream")
      ELSE Call(s, "squash_buffer_stream_process")

\* lines 406-414
ProcessLevel(s, f) ==
  IF s.avail_in = 0 /\ s.state = SQUASH_STREAM_STATE_IDLE
    THEN {NoCall(s, SQUASH_OK)}
    ELSE IF f.process_stream
      THEN Call(s, "process_stream")
      ELSE Call(s, "squash_buffer_stream_process")
\* FlushLevel flushing whenever the codec can, also on the way to Finish
FlushLevel_Speculative(s, f, operation, current_operation, res) ==
  IF f.flush_stream
    THEN Call(s, "flush_stream")
    ELSE {[NoCall(s, r) EXCEPT !.uninit = (res = UNINITIALIZED)] : r \in ReadRes(res)}

\* lines 415-428: on the way to Finish nothing is assigned to res
FlushLevel(s, f, operation, current_operation, res) ==
  IF current_operation = operation
    THEN IF f.flush_stream
      THEN Call(s, "flush_stream")
      ELSE {NoCall(s, SQUASH_OK)}
    ELSE {[NoCall(s, r) EXCEPT !.uninit = (res = UNINITIALIZED)] : r \in ReadRes(res)}

\* lines 439-444
NormalizeFinish(res) == IF res = SQUASH_END_OF_STREAM THEN SQUASH_OK ELSE res
\* FinishLevel falling back to the Buffering Adapter whenever finish_stream
\* is missing
FinishLevel_AlwaysBuffer(s, f) ==
  IF f.finish_stream
    THEN {[r EXCEPT !.res = NormalizeFinish(@)] : r \in Call(s, "finish_stream")}
    ELSE {[r EXCEPT !.res = NormalizeFinish(@)] : r \in Call(s, "squash_buffer_stream_finish")}

\* lines 429-445
FinishLevel(s, f) ==
  IF f.finish_stream
    THEN {[r EXCEPT !.res = NormalizeFinish(@)] : r \in Call(s, "finish_stream")}
    ELSE IF ~f.process_stream
      THEN {[r EXCEPT !.res = NormalizeFinish(@)] : r \in Call(s, "squash_buffer_stream_finish")}
      ELSE {NoCall(s, SQUASH_INVALID_OPERATION)}

\* lines 406, 415, 429: the branch on current_operation
Level(s, f, operation, current_operation, res) ==
  CASE current_operation = 0 -> ProcessLevel(s, f)
    [] current_operation = 1 -> FlushLevel(s, f, operation, current_operation, res)
    [] current_operation = 2 -> FinishLevel(s, f)

\* lines 447-452
ProbeCheck(saved, s, res) ==
  IF saved # NULL /\ s.avail_out = 0 THEN SQUASH_BUFFER_FULL ELSE res

\* lines 455-465
InProgress(current_operation) ==
  CASE current_operation = 0 -> SQUASH_STREAM_STATE_RUNNING
    [] current_operation = 1 -> SQUASH_STREAM_STATE_FLUSHING
    [] current_operation = 2 -> SQUASH_STREAM_STATE_FINISHING
\* Interpret without the special case for Ok at the Finish level
Interpret_FinishOkIdle(st, current_operation, res) ==
  IF res = SQUASH_PROCESSING
    THEN [state |-> InProgress(current_operation), cur |-> current_operation, stop |-> TRUE]
  ELSE IF res = SQUASH_END_OF_STREAM
    THEN [state |-> SQUASH_STREAM_STATE_FINISHED, cur |-> current_operation + 1, stop |-> TRUE]
  ELSE IF res = SQUASH_OK
    THEN [state |-> SQUASH_STREAM_STATE_IDLE, cur |-> current_operation + 1, stop |-> FALSE]
  ELSE [state |-> st, cur |-> current_operation, stop |-> TRUE]

\* Interpret leaving the state alone on Ok instead of resetting it to Idle
Interpret_OkKeepsState(st, current_operation, res) ==
  IF res = SQUASH_PROCESSING
    THEN [state |-> InProgress(current_operation), cur |-> current_operation, stop |-> TRUE]
  ELSE IF res = SQUASH_END_OF_STREAM \/ (current_operation = 2 /\ res = SQUASH_OK)
    THEN [state |-> SQUASH_STREAM_STATE_FINISHED, cur |-> current_operation + 1, stop |-> TRUE]
  ELSE IF res = SQUASH_OK
    THEN [state |-> st, cur |-> current_operation + 1, stop |-> FALSE]
  ELSE [state |-> st, cur |-> current_operation, stop |-> TRUE]

\* Interpret putting the stream back to Idle when a level fails
Interpret_ErrorResets(st, current_operation, res) ==
  IF res = SQUASH_PROCESSING
    THEN [state |-> InProgress(current_operation), cur |-> current_operation, stop |-> TRUE]
  ELSE IF res = SQUASH_END_OF_STREAM \/ (current_operation = 2 /\ res = SQUASH_OK)
    THEN [state |-> SQUASH_STREAM_STATE_FINISHED, cur |-> current_operation + 1, stop |-> TRUE]
  ELSE IF res = SQUASH_OK
    THEN [state |-> SQUASH_STREAM_STATE_IDLE, cur |-> current_operation + 1, stop |-> FALSE]
  ELSE [state |-> SQUASH_STREAM_STATE_IDLE, cur |-> current_operation, stop |-> TRUE]

\* Interpret staying on the level after an Ok that ends a Running stretch
Interpret_RetryProcess(st, current_operation, res) ==
  IF res = SQUASH_PROCESSING
    THEN [state |-> InProgress(current_operation), cur |-> current_operation, stop |-> TRUE]
  ELSE IF res = SQUASH_END_OF_STREAM \/ (current_operation = 2 /\ res = SQUASH_OK)
    THEN [state |-> SQUASH_STREAM_STATE_FINISHED, cur |-> current_operation + 1, stop |-> TRUE]
  ELSE IF res = SQUASH_OK
    THEN [state |-> SQUASH_STREAM_STATE_IDLE,
          cur |-> IF st = SQUASH_STREAM_STATE_RUNNING
                    THEN current_operation ELSE current_operation + 1,
          stop |-> FALSE]
  ELSE [state |-> st, cur |-> current_operation, stop |-> TRUE]

\* lines 454-476: what the status does to state and current_operation,
\* and whether the loop is left by a break
Interpret(st, current_operation, res) ==
  IF res = SQUASH_PROCESSING
    THEN [state |-> InProgress(current_operation), cur |-> current_operation, stop |-> TRUE]
  ELSE IF res = SQUASH_END_OF_STREAM \/ (current_operation = 2 /\ res = SQUASH_OK)
    THEN [state |-> SQUASH_STREAM_STATE_FINISHED, cur |-> current_operation + 1, stop |-> TRUE]
  ELSE IF res = SQUASH_OK
    THEN [state |-> SQUASH_STREAM_STATE_IDLE, cur |-> current_operation + 1, stop |-> FALSE]
  ELSE [state |-> st, cur |-> current_operation, stop |-> TRUE]

\* one iteration of the loop (lines 406-476) on the level result lr.
\* The trace entry keeps what happened: the level, the entry point called,
\* the status it returned, res after the probe check, whether the byte of
\* output_sbb was written, the state before the iteration, and whether res
\* was read without ever having been assigned.
Iteration(c, lr, saved, probing) ==
  LET res == ProbeCheck(saved, lr.s, lr.res)
      it == Interpret(lr.s.state, c.cur, res)
  IN [s |-> [lr.s EXCEPT !.state = it.state], cur |-> it.cur, res |-> res, stop |-> it.stop,
      trace |-> Append(c.trace,
                  [level |-> c.cur, fn |-> lr.fn, ret |-> lr.ret, res |-> res,
                   wrote |-> probing /\ lr.s.avail_out = 0,
                   before |-> c.s.state, uninit |-> lr.uninit])]

\* lines 405-477: every way the loop can run from c
RECURSIVE Loop(_, _, _, _, _)
Loop(c, f, operation, saved, probing) ==
  IF c.stop \/ c.cur > operation
    THEN {c}
    ELSE UNION {Loop(Iteration(c, lr, saved, probing), f, operation, saved, probing) :
                  lr \in Level(c.s, f, operation, c.cur, c.res)}

\* lines 479-482
Restore(saved, s) ==
  IF saved # NULL THEN [s EXCEPT !.avail_out = 0, !.next_out = saved] ELSE s

\* lines 484-485, in size_t arithmetic
UpdateTotals(s, avail_in0, avail_out0) ==
  [s EXCEPT !.total_in = (@ + (avail_in0 - s.avail_in)) % SizeMod,
            !.total_out = (@ + (avail_out0 - s.avail_out)) % SizeMod]

\* lines 479-487
Epilogue(c, saved, avail_in0, avail_out0) ==
  [s |-> UpdateTotals(Restore(saved, c.s), avail_in0, avail_out0),
   res |-> c.res, exit |-> "return", trace |-> c.trace]

\* an early return: nothing touched
Reject(s, status, where) == [s |-> s, res |-> status, exit |-> where, trace |-> <<>>]

\* lines 307-488: every outcome of one call
squash_stream_process_internal(s, f, operation) ==
  IF FlushUnsupported(operation, f)
    THEN {Reject(s, SQUASH_INVALID_OPERATION, "no_flush")}
  ELSE IF PassedLevel(operation, s.state)
    THEN {Reject(s, SQUASH_STATE, "passed")}
  ELSE IF CurrentOperation(s.state) > operation
    THEN {Reject(s, SQUASH_STATE, "defensive")}
  ELSE LET p == ProbeInstall(s)
           c0 == [s |-> p.s, cur |-> CurrentOperation(s.state), res |-> UNINITIALIZED,
                  stop |-> FALSE, trace |-> <<>>]
       IN {Epilogue(c, p.saved, s.avail_in, s.avail_out) :
             c \in Loop(c0, f, operation, p.saved, s.avail_out = 0)}

(* ---------------------------- the state machine ------------------------ *)
\* no driver call has returned since the caller last looked
NoCallYet == [operation |-> -1]

\* squash_object_ref and squash_object_unref on a reference count
ObjectRef(n) == n + 1
ObjectUnref(n) == n - 1

\* squash_stream_init with the given options argument, of which refs
\* references are held elsewhere
StreamInit(opts, refs) ==
  /\ state = SQUASH_STREAM_STATE_IDLE
  /\ next_in = NULL /\ avail_in = 0 /\ total_in = 0
  /\ next_out = NULL /\ avail_out = 0 /\ total_out = 0
  /\ options = opts
  /\ ref_before = (IF opts # NULL THEN refs ELSE 0)
  /\ ref_count = (IF opts # NULL THEN ObjectRef(refs) ELSE 0)
  /\ user_data = NULL /\ destroy_user_data = NULL
  /\ destructor_calls = 0 /\ destroyed = FALSE
  /\ call = NoCallYet

\* squash_stream_init, for any codec, without options
Init ==
  /\ funcs \in CodecFuncs
  /\ StreamInit(NULL, 0)

\* squash_stream_init with or without options, for the codec that has all
\* three callbacks (on it every state is reached)
InitLifecycle ==
  /\ funcs = [process_stream |-> TRUE, flush_stream |-> TRUE, finish_stream |-> TRUE]
  /\ \E opts \in {NULL, Options}, refs \in 1 .. MaxHolders : StreamInit(opts, refs)

\* a driver call with the given operation
Drive(operation) ==
  /\ ~destroyed
  /\ call = NoCallYet
  /\ \E r \in squash_stream_process_internal(Stream, funcs, operation) :
       /\ state' = r.s.state
       /\ next_in' = r.s.next_in /\ avail_in' = r.s.avail_in /\ total_in' = r.s.total_in
       /\ next_out' = r.s.next_out /\ avail_out' = r.s.avail_out /\ total_out' = r.s.total_out
       /\ call' = [operation |-> operation, entry |-> Stream, res |-> r.res,
                   exit |-> r.exit, trace |-> r.trace]
       /\ UNCHANGED funcs
  /\ UNCHANGED lifeVars

squash_stream_process == Drive(OP_PROCESS)
squash_stream_flush == Drive(OP_FLUSH)
squash_stream_finish == Drive(OP_FINISH)

\* the caller has the status and the stream fields of the call that returned
TakeResult ==
  /\ ~destroyed
  /\ call # NoCallYet
  /\ call' = NoCallYet
  /\ UNCHANGED <<state, next_in, avail_in, total_in, next_out, avail_out, total_out, funcs>>
  /\ UNCHANGED lifeVars

\* between calls the caller points the stream at fresh input ...
SetInput ==
  /\ ~destroyed
  /\ call = NoCallYet
  /\ \E k \in 1 .. MaxAvail :
       /\ total_in + k <= MaxTotal
       /\ next_in' = InBuf /\ avail_in' = k
  /\ UNCHANGED <<state, total_in, next_out, avail_out, total_out, funcs, call>>
  /\ UNCHANGED lifeVars

\* ... and at output room, possibly none
SetOutput ==
  /\ ~destroyed
  /\ call = NoCallYet
  /\ \E k \in 0 .. MaxAvail, p \in {NULL, OutBuf} :
       /\ p = NULL => k = 0
       /\ k = 0 \/ total_out + k <= MaxTotal
       /\ next_out' = p /\ avail_out' = k
  /\ UNCHANGED <<state, next_in, avail_in, total_in, total_out, funcs, call>>
  /\ UNCHANGED lifeVars

\* the caller fills the user-data slot and its destructor, or clears them
SetUserData ==
  /\ ~destroyed
  /\ call = NoCallYet
  /\ \E ud \in {NULL, UserData}, fn \in {NULL, Destructor} :
       /\ <<ud, fn>> # <<user_data, destroy_user_data>>
       /\ user_data' = ud /\ destroy_user_data' = fn
  /\ UNCHANGED <<state, next_in, avail_in, total_in, next_out, avail_out, total_out, funcs,
                 call, options, ref_count, ref_before, destructor_calls, destroyed>>

\* squash_stream_destroy calling the destructor when either pointer is set
squash_stream_destroy_EitherSet ==
  /\ ~destroyed
  /\ call = NoCallYet
  /\ destructor_calls' = IF destroy_user_data # NULL \/ user_data # NULL
                           THEN destructor_calls + 1 ELSE destructor_calls
  /\ IF options # NULL
       THEN ref_count' = ObjectUnref(ref_count) /\ options' = NULL
       ELSE UNCHANGED <<ref_count, options>>
  /\ destroyed' = TRUE
  /\ UNCHANGED <<state, next_in, avail_in, total_in, next_out, avail_out, total_out, funcs,
                 call, user_data, destroy_user_data, ref_before>>

\* squash_stream_destroy (lines 199-216), in whatever state the stream is;
\* nothing is done with the stream afterwards
squash_stream_destroy ==
  /\ ~destroyed
  /\ call = NoCallYet
  /\ destructor_calls' = IF destroy_user_data # NULL /\ user_data # NULL
                           THEN destructor_calls + 1 ELSE destructor_calls
  /\ IF options # NULL
       THEN ref_count' = ObjectUnref(ref_count) /\ options' = NULL
       ELSE UNCHANGED <<ref_count, options>>
  /\ destroyed' = TRUE
  /\ UNCHANGED <<state, next_in, avail_in, total_in, next_out, avail_out, total_out, funcs,
                 call, user_data, destroy_user_data, ref_before>>

Next ==
  \/ squash_stream_process
  \/ squash_stream_flush
  \/ squash_stream_finish
  \/ TakeResult
  \/ SetInput
  \/ SetOutput
  \/ squash_stream_destroy

Spec == Init /\ [][Next]_vars

\* the same stream with options and with a caller that uses the user-data
\* slot
NextLifecycle ==
  \/ Next
  \/ SetUserData

SpecLifecycle == InitLifecycle /\ [][NextLifecycle]_vars

(* ---------------------------- reading a call --------------------------- *)
\* a driver call has returned and the caller has not yet moved on
Returned == call # NoCallYet
\* the call got as far as the loop and left by the return of line 487
RanLoop == Returned /\ call.exit = "return"
\* the call left by one of the early returns
Rejected == Returned /\ call.exit # "return"
Steps == IF Returned THEN DOMAIN call.trace ELSE {}
LastStep == call.trace[Len(call.trace)]
\* the entry points of the plugin and of the Buffering Adapter
EntryPoints == {"process_stream", "squash_buffer_stream_process", "flush_stream",
                "finish_stream", "squash_buffer_stream_finish"}
FinishEntryPoints == {"finish_stream", "squash_buffer_stream_finish"}

(* ---------------------------- C1 ---------------------------------------- *)
\* C1: over any sequence of calls total_in and total_out never decrease, and
\* a call adds to each exactly the decrease of the matching remaining length
\* as the caller sees it: a call entered with avail_out = 0 adds 0 to
\* total_out, and a call rejected before the loop adds 0 to both.
C1_TotalsFollowCursors ==
  Returned =>
    /\ total_in >= call.entry.total_in
    /\ total_out >= call.entry.total_out
    /\ total_in = call.entry.total_in + (call.entry.avail_in - avail_in)
    /\ total_out = call.entry.total_out + (call.entry.avail_out - avail_out)
    /\ call.entry.avail_out = 0 => total_out = call.entry.total_out
    /\ Rejected => total_in = call.entry.total_in /\ total_out = call.entry.total_out

(* ---------------------------- C2 ---------------------------------------- *)
\* C2: a request for a level the stream has passed (Process in Flushing,
\* Finishing or Finished; Flush, on a codec with flush, in Finishing or
\* Finished; Finish in Finished) returns State, calls no entry point and
\* leaves every stream field as it was; every other (state, request) pair
\* gets past this check.
C2_PassedLevelRejected ==
  Returned /\ ~(call.operation = OP_FLUSH /\ ~funcs.flush_stream) =>
    LET st0 == call.entry.state
        passed ==
          \/ call.operation = OP_PROCESS
               /\ st0 \in {SQUASH_STREAM_STATE_FLUSHING, SQUASH_STREAM_STATE_FINISHING,
                           SQUASH_STREAM_STATE_FINISHED}
          \/ call.operation = OP_FLUSH
               /\ st0 \in {SQUASH_STREAM_STATE_FINISHING, SQUASH_STREAM_STATE_FINISHED}
          \/ call.operation = OP_FINISH /\ st0 = SQUASH_STREAM_STATE_FINISHED
    IN IF passed
         THEN /\ call.exit = "passed"
              /\ call.res = SQUASH_STATE
              /\ call.trace = <<>>
              /\ Stream = call.entry
         ELSE call.exit # "passed"

\* a Flush request, on a codec with flush, is turned away in Finishing
C2_Witness ==
  /\ Returned
  /\ call.operation = OP_FLUSH /\ funcs.flush_stream
  /\ call.entry.state = SQUASH_STREAM_STATE_FINISHING
  /\ call.res = SQUASH_STATE

(* ---------------------------- C3 ---------------------------------------- *)
\* C3 as stated: once the state is Finished every further Process, Flush or
\* Finish call, for every codec, returns State and leaves the totals alone.
C3_FinishedAlwaysState ==
  Returned /\ call.entry.state = SQUASH_STREAM_STATE_FINISHED =>
    /\ call.res = SQUASH_STATE
    /\ total_in = call.entry.total_in /\ total_out = call.entry.total_out

\* C3 amended: once the state is Finished every further Process or Finish
\* call, and every Flush call on a codec with a flush capability, returns
\* State; a Flush call on a codec without one returns InvalidOperation; in
\* every case the state stays Finished and the totals are unchanged.
C3_FinishedRejects ==
  Returned /\ call.entry.state = SQUASH_STREAM_STATE_FINISHED =>
    /\ call.res = IF call.operation = OP_FLUSH /\ ~funcs.flush_stream
                    THEN SQUASH_INVALID_OPERATION ELSE SQUASH_STATE
    /\ state = SQUASH_STREAM_STATE_FINISHED
    /\ total_in = call.entry.total_in /\ total_out = call.entry.total_out

\* a finished stream of a codec without flush is asked to flush
C3_Witness ==
  /\ Returned
  /\ call.entry.state = SQUASH_STREAM_STATE_FINISHED
  /\ call.operation = OP_FLUSH /\ ~funcs.flush_stream
  /\ call.res = SQUASH_INVALID_OPERATION

(* ---------------------------- C4 ---------------------------------------- *)
\* C4: a Flush request on a codec without flush_stream returns
\* InvalidOperation in each of the five states, calls no entry point and
\* leaves state, totals and both cursors as they were.  The second conjunct
\* puts the stream in each state in turn, reached or not.
C4_FlushUnsupported ==
  /\ Returned /\ call.operation = OP_FLUSH /\ ~funcs.flush_stream =>
       /\ call.res = SQUASH_INVALID_OPERATION
       /\ call.trace = <<>>
       /\ Stream = call.entry
  /\ ~funcs.flush_stream =>
       \A st \in StreamStates :
         LET s == [Stream EXCEPT !.state = st]
         IN \A r \in squash_stream_process_internal(s, funcs, OP_FLUSH) :
              r.res = SQUASH_INVALID_OPERATION /\ r.trace = <<>> /\ r.s = s

\* a running stream of a codec without flush is asked to flush
C4_Witness ==
  /\ Returned
  /\ call.operation = OP_FLUSH /\ ~funcs.flush_stream
  /\ call.entry.state = SQUASH_STREAM_STATE_RUNNING
  /\ call.res = SQUASH_INVALID_OPERATION
  /\ state = SQUASH_STREAM_STATE_RUNNING

(* ---------------------------- C5 ---------------------------------------- *)
\* C5: when a call is entered with avail_out = 0 and an entry point called in
\* it writes the byte of the probe buffer, the call returns BufferFull
\* whatever that entry point returned, that step leaves the state alone, no
\* later level runs, and at return the caller's output pointer is back with
\* avail_out = 0.
C5_ProbeWrittenIsBufferFull ==
  RanLoop /\ call.entry.avail_out = 0 =>
    \A i \in Steps :
      call.trace[i].wrote =>
        /\ call.res = SQUASH_BUFFER_FULL
        /\ i = Len(call.trace)
        /\ state = call.trace[i].before
        /\ next_out = call.entry.next_out
        /\ avail_out = 0

(* ---------------------------- C6 ---------------------------------------- *)
\* C6: when a call is entered with avail_out = 0 and no entry point called in
\* it writes the probe byte, the probe changes nothing: each step's status is
\* the one its entry point returned (EndOfStream from a finish entry point
\* read as Ok), BufferFull is returned only if that is what came out of a
\* level, and at return the caller's output pointer and its zero capacity
\* are back.
C6_ProbeUnwrittenIsNeutral ==
  RanLoop /\ call.entry.avail_out = 0 /\ (\A i \in Steps : ~call.trace[i].wrote) =>
    /\ \A i \in Steps :
         call.trace[i].fn \in EntryPoints =>
           call.trace[i].res = IF call.trace[i].level = 2 /\ call.trace[i].ret = SQUASH_END_OF_STREAM
                                 THEN SQUASH_OK ELSE call.trace[i].ret
    /\ call.res = SQUASH_BUFFER_FULL =>
         \E i \in Steps : call.trace[i].ret = SQUASH_BUFFER_FULL \/ call.trace[i].uninit
    /\ next_out = call.entry.next_out
    /\ avail_out = 0

(* ---------------------------- C7 ---------------------------------------- *)
\* C7: whenever a call returns Processing, an entry point returned it, the
\* state is the in-progress state of that entry point's level (Running,
\* Flushing, Finishing), it was the last level of the call, and the same
\* request would be accepted again; for a process call the state is Running
\* and total_in has grown by what the call consumed.
C7_ProcessingKeepsLevel ==
  Returned /\ call.res = SQUASH_PROCESSING =>
    /\ RanLoop
    /\ LastStep.fn \in EntryPoints
    /\ LastStep.ret = SQUASH_PROCESSING
    /\ state = CASE LastStep.level = 0 -> SQUASH_STREAM_STATE_RUNNING
                 [] LastStep.level = 1 -> SQUASH_STREAM_STATE_FLUSHING
                 [] LastStep.level = 2 -> SQUASH_STREAM_STATE_FINISHING
    /\ \A r \in squash_stream_process_internal(Stream, funcs, call.operation) : r.exit = "return"
    /\ call.operation = OP_PROCESS =>
         /\ state = SQUASH_STREAM_STATE_RUNNING
         /\ total_in = call.entry.total_in + (call.entry.avail_in - avail_in)

(* ---------------------------- C8 ---------------------------------------- *)
\* C8: a finish call that returns Ok leaves the state Finished; and a call
\* that leaves the state newly Finished returned Ok from the Finish level or
\* EndOfStream from the Process or Flush level.
C8_FinishedIffTerminalStatus ==
  Returned =>
    /\ call.operation = OP_FINISH /\ call.res = SQUASH_OK => state = SQUASH_STREAM_STATE_FINISHED
    /\ state = SQUASH_STREAM_STATE_FINISHED /\ call.entry.state # SQUASH_STREAM_STATE_FINISHED =>
         /\ RanLoop
         /\ \/ LastStep.level = 2 /\ call.res = SQUASH_OK
            \/ LastStep.level \in {0, 1} /\ call.res = SQUASH_END_OF_STREAM

\* a finish call on an unfinished stream returned Ok
C8_Witness ==
  /\ Returned
  /\ call.operation = OP_FINISH /\ call.res = SQUASH_OK
  /\ call.entry.state = SQUASH_STREAM_STATE_RUNNING
  /\ state = SQUASH_STREAM_STATE_FINISHED

(* ---------------------------- C9 ---------------------------------------- *)
\* C9: a Finish request on a stream in Idle or Running runs the Process
\* level first and reaches the Finish level in the same call exactly when
\* the Process level yields Ok; flush_stream is called in no Finish request;
\* a Flush request in Idle or Running runs Process first and calls
\* flush_stream exactly when Process yields Ok.  Levels run in rising order.
C9_EscalationOrder ==
  RanLoop =>
    /\ \A i, j \in Steps : i < j => call.trace[i].level < call.trace[j].level
    /\ call.operation = OP_FINISH => \A i \in Steps : call.trace[i].fn # "flush_stream"
    /\ call.entry.state \in {SQUASH_STREAM_STATE_IDLE, SQUASH_STREAM_STATE_RUNNING}
         /\ call.operation \in {OP_FLUSH, OP_FINISH} =>
         /\ call.trace[1].level = 0
         /\ call.operation = OP_FINISH =>
              ((\E i \in Steps : call.trace[i].level = 2) <=> call.trace[1].res = SQUASH_OK)
         /\ call.operation = OP_FLUSH =>
              ((\E i \in Steps : call.trace[i].fn = "flush_stream") <=> call.trace[1].res = SQUASH_OK)

\* a Finish request on a running stream of a codec that has all three
\* callbacks went through Process and on to finish_stream
C9_Witness ==
  /\ RanLoop
  /\ call.operation = OP_FINISH /\ funcs.flush_stream
  /\ call.entry.state = SQUASH_STREAM_STATE_RUNNING
  /\ Len(call.trace) = 3
  /\ call.trace[1].fn = "process_stream" /\ call.trace[1].res = SQUASH_OK
  /\ call.trace[3].fn = "finish_stream"

(* ---------------------------- C10 --------------------------------------- *)
\* the Process level of the call completed with Ok
ProcessLevelOk == \E i \in Steps : call.trace[i].level = 0 /\ call.trace[i].res = SQUASH_OK

\* C10 as stated: for a codec with process_stream but neither flush_stream
\* nor finish_stream, a finish call whose Process level completes with Ok
\* calls the Buffering Adapter's finish, and on its Ok the state is Finished.
C10_ProcessOnlyUsesBufferFinish ==
  RanLoop /\ call.operation = OP_FINISH /\ ProcessLevelOk
    /\ funcs.process_stream /\ ~funcs.flush_stream /\ ~funcs.finish_stream =>
      \E i \in Steps :
        /\ call.trace[i].fn = "squash_buffer_stream_finish"
        /\ call.trace[i].ret = SQUASH_OK => state = SQUASH_STREAM_STATE_FINISHED

\* C10 amended: for a codec with process_stream but neither flush_stream nor
\* finish_stream, a finish call whose Process level completes with Ok calls
\* no finish entry point, returns InvalidOperation and leaves the state Idle;
\* the Buffering Adapter's finish is what such a call invokes for a codec
\* with none of the three callbacks, and when it returns Ok and the probe
\* check lets that stand the state becomes Finished.
C10_FinishDispatchWithoutFinish ==
  RanLoop /\ call.operation = OP_FINISH /\ ProcessLevelOk
    /\ ~funcs.flush_stream /\ ~funcs.finish_stream =>
      IF funcs.process_stream
        THEN /\ \A i \in Steps : call.trace[i].fn \notin FinishEntryPoints
             /\ call.res = SQUASH_INVALID_OPERATION
             /\ state = SQUASH_STREAM_STATE_IDLE
        ELSE /\ LastStep.fn = "squash_buffer_stream_finish"
             /\ LastStep.ret = SQUASH_OK /\ LastStep.res = SQUASH_OK =>
                  state = SQUASH_STREAM_STATE_FINISHED /\ call.res = SQUASH_OK

\* a finish call on a running stream of a process-only codec: the Process
\* level consumed input and yielded Ok, the call returned InvalidOperation
C10_Witness ==
  /\ RanLoop
  /\ call.operation = OP_FINISH
  /\ funcs.process_stream /\ ~funcs.flush_stream /\ ~funcs.finish_stream
  /\ call.entry.state = SQUASH_STREAM_STATE_RUNNING
  /\ call.trace[1].fn = "process_stream" /\ call.trace[1].res = SQUASH_OK
  /\ call.res = SQUASH_INVALID_OPERATION
  /\ state = SQUASH_STREAM_STATE_IDLE

(* ---------------------------- C11 --------------------------------------- *)
\* C11: a Process request on an Idle stream with avail_in = 0 returns Ok,
\* calls neither process_stream nor the Buffering Adapter, leaves the state
\* Idle and every total and cursor as it was, with avail_out = 0 too; on a
\* Running stream avail_in = 0 does not skip the call of the entry point.
C11_IdleNoInputIsNoOp ==
  /\ Returned /\ call.operation = OP_PROCESS
       /\ call.entry.state = SQUASH_STREAM_STATE_IDLE /\ call.entry.avail_in = 0 =>
       /\ call.res = SQUASH_OK
       /\ \A i \in Steps : call.trace[i].fn \notin EntryPoints
       /\ Stream = call.entry
  /\ Returned /\ call.operation = OP_PROCESS
       /\ call.entry.state = SQUASH_STREAM_STATE_RUNNING /\ call.entry.avail_in = 0 =>
       /\ RanLoop
       /\ call.trace[1].fn \in {"process_stream", "squash_buffer_stream_process"}

(* ---------------------------- C12 --------------------------------------- *)
\* C12: when a level yields a status other than Ok, Processing or
\* EndOfStream, the loop stops there, nothing further is called, the call
\* returns that status (the entry point's own unless the probe byte was
\* written), the state is what the levels before it left, and the totals
\* have still grown by what the call consumed and produced.
C12_ErrorStopsCall ==
  RanLoop =>
    \A i \in Steps :
      call.trace[i].res \notin {SQUASH_OK, SQUASH_PROCESSING, SQUASH_END_OF_STREAM} =>
        /\ i = Len(call.trace)
        /\ call.res = call.trace[i].res
        /\ call.trace[i].fn \in EntryPoints /\ ~call.trace[i].wrote =>
             call.res = call.trace[i].ret
        /\ state = call.trace[i].before
        /\ total_in = call.entry.total_in + (call.entry.avail_in - avail_in)
        /\ total_out = call.entry.total_out + (call.entry.avail_out - avail_out)

(* ---------------------------- C14 --------------------------------------- *)
\* C14: a Finish request in state Flushing is accepted, does not call
\* flush_stream, reaches the Finish level, and what it returns and the state
\* it leaves come from a status assigned in that call: no step reads res
\* before anything was assigned to it.
C14_FinishFromFlushingAssigned ==
  Returned /\ call.operation = OP_FINISH
    /\ call.entry.state = SQUASH_STREAM_STATE_FLUSHING =>
      /\ RanLoop
      /\ \A i \in Steps : call.trace[i].fn # "flush_stream"
      /\ \E i \in Steps : call.trace[i].level = 2
      /\ \A i \in Steps : ~call.trace[i].uninit

(* ---------------------------- C15 --------------------------------------- *)
\* C15: the Process level, unless the stream is Idle with no input, calls
\* process_stream if the codec has it and the Buffering Adapter's process otherwise; the
\* Finish level calls finish_stream if the codec has it, the Buffering
\* Adapter's finish exactly when the codec has neither finish_stream nor
\* process_stream, and otherwise calls nothing and yields InvalidOperation;
\* so the Buffering Adapter is never called for a codec with process_stream.
C15_Dispatch ==
  RanLoop =>
    \A i \in Steps :
      LET step == call.trace[i]
      IN /\ step.level = 0 =>
              \/ /\ step.fn = "none"
                 /\ step.before = SQUASH_STREAM_STATE_IDLE /\ call.entry.avail_in = 0
              \/ step.fn = IF funcs.process_stream
                             THEN "process_stream" ELSE "squash_buffer_stream_process"
         /\ step.level = 2 =>
              /\ funcs.finish_stream => step.fn = "finish_stream"
              /\ ~funcs.finish_stream /\ ~funcs.process_stream =>
                   step.fn = "squash_buffer_stream_finish"
              /\ ~funcs.finish_stream /\ funcs.process_stream =>
                   step.fn = "none" /\ step.res = SQUASH_INVALID_OPERATION
         /\ funcs.process_stream =>
              step.fn \notin {"squash_buffer_stream_process", "squash_buffer_stream_finish"}

\* a codec with none of the callbacks went through both entry points of the
\* Buffering Adapter in one finish call
C15_Witness ==
  /\ RanLoop
  /\ ~funcs.process_stream /\ ~funcs.finish_stream
  /\ call.operation = OP_FINISH
  /\ call.trace[1].fn = "squash_buffer_stream_process"
  /\ LastStep.fn = "squash_buffer_stream_finish"

(* ---------------------------- C16 --------------------------------------- *)
\* C16: when a Flush request completes with Ok the state is Idle again, so
\* a following Process, Flush or Finish request is not turned away; the
\* same reset to Idle happens when a Process request on a Running stream
\* completes with Ok.
C16_OkResetsToIdle ==
  /\ RanLoop /\ call.operation = OP_FLUSH /\ call.res = SQUASH_OK =>
       /\ state = SQUASH_STREAM_STATE_IDLE
       /\ LastStep.fn = "flush_stream"
       /\ \A op \in {OP_PROCESS, OP_FLUSH, OP_FINISH} :
            \A r \in squash_stream_process_internal(Stream, funcs, op) : r.exit = "return"
  /\ RanLoop /\ call.operation = OP_PROCESS /\ call.res = SQUASH_OK
       /\ call.entry.state = SQUASH_STREAM_STATE_RUNNING =>
       state = SQUASH_STREAM_STATE_IDLE

\* a Flush request on a stream left Flushing by an earlier one completed
\* with Ok
C16_Witness ==
  /\ RanLoop
  /\ call.operation = OP_FLUSH /\ call.res = SQUASH_OK
  /\ call.entry.state = SQUASH_STREAM_STATE_FLUSHING
  /\ state = SQUASH_STREAM_STATE_IDLE

(* ---------------------------- C17 --------------------------------------- *)
\* C17: when the finish entry point called at the Finish level returns
\* EndOfStream and the probe byte was not written, the call returns Ok and
\* the state becomes Finished; a finish call returns EndOfStream only when
\* the entry point of the Process level returned it.
C17_FinishEndOfStreamIsOk ==
  RanLoop =>
    /\ \A i \in Steps :
         /\ call.trace[i].fn \in FinishEntryPoints
         /\ call.trace[i].ret = SQUASH_END_OF_STREAM
         /\ ~call.trace[i].wrote
         => call.res = SQUASH_OK /\ state = SQUASH_STREAM_STATE_FINISHED
    /\ call.operation = OP_FINISH /\ call.res = SQUASH_END_OF_STREAM =>
         /\ LastStep.level = 0
         /\ LastStep.ret = SQUASH_END_OF_STREAM

(* ---------------------------- C18 --------------------------------------- *)
\* C18: every step of the stream keeps a Finishing state Finishing or moves
\* it to Finished, and keeps a Finished state Finished; the only steps that
\* take the state backwards go from Running or Flushing to Idle, in a call
\* in which some level yielded Ok.
C18_ForwardOnly ==
  [][/\ state = SQUASH_STREAM_STATE_FINISHING =>
          state' \in {SQUASH_STREAM_STATE_FINISHING, SQUASH_STREAM_STATE_FINISHED}
     /\ state = SQUASH_STREAM_STATE_FINISHED => state' = SQUASH_STREAM_STATE_FINISHED
     /\ state' < state =>
          /\ state' = SQUASH_STREAM_STATE_IDLE
          /\ state \in {SQUASH_STREAM_STATE_RUNNING, SQUASH_STREAM_STATE_FLUSHING}
          /\ \E i \in DOMAIN call'.trace : call'.trace[i].res = SQUASH_OK]_vars

\* a finish call on a Finishing stream failed and left it Finishing
C18_Witness ==
  /\ RanLoop
  /\ call.operation = OP_FINISH
  /\ call.entry.state = SQUASH_STREAM_STATE_FINISHING
  /\ call.res = SQUASH_FAILED
  /\ state = SQUASH_STREAM_STATE_FINISHING

(* ---------------------------- C19 --------------------------------------- *)
\* how many steps of the call called one of the entry points in fns
Calls(fns) == Cardinality({i \in Steps : call.trace[i].fn \in fns})

\* C19: a call that enters the loop leaves it after at most three
\* iterations; the process entry point, flush_stream and the finish entry
\* point are each called at most once, in that order, and no level runs
\* again after a higher one.
C19_AtMostThreeIterations ==
  RanLoop =>
    /\ Len(call.trace) \in 1 .. 3
    /\ Calls({"process_stream", "squash_buffer_stream_process"}) <= 1
    /\ Calls({"flush_stream"}) <= 1
    /\ Calls(FinishEntryPoints) <= 1
    /\ \A i, j \in Steps :
         i < j =>
           /\ call.trace[i].level < call.trace[j].level
           /\ call.trace[j].fn \in {"process_stream", "squash_buffer_stream_process"} =>
                call.trace[i].fn \notin {"flush_stream"} \cup FinishEntryPoints
           /\ call.trace[j].fn = "flush_stream" => call.trace[i].fn \notin FinishEntryPoints

\* a finish call of three iterations that called a process entry point and
\* a finish entry point
C19_Witness ==
  /\ RanLoop
  /\ call.operation = OP_FINISH
  /\ Len(call.trace) = 3
  /\ Calls({"process_stream", "squash_buffer_stream_process"}) = 1
  /\ Calls(FinishEntryPoints) = 1

(* ---------------------------- C20 --------------------------------------- *)
\* C20: for every state and request that gets past the threshold check, the
\* level the state maps to is at most the requested one, so the second
\* State check never fires and the loop is entered at a level in 0..2.
C20_DefensiveCheckDead ==
  /\ \A st \in StreamStates, op \in {OP_PROCESS, OP_FLUSH, OP_FINISH} :
       ~PassedLevel(op, st) =>
         CurrentOperation(st) <= op /\ CurrentOperation(st) \in 0 .. 2
  /\ Returned => call.exit # "defensive"
  /\ RanLoop =>
       call.trace[1].level \in 0 .. 2 /\ call.trace[1].level <= call.operation

\* a Flush request on a Flushing stream got past both checks
C20_Witness ==
  /\ RanLoop
  /\ call.operation = OP_FLUSH
  /\ call.entry.state = SQUASH_STREAM_STATE_FLUSHING
  /\ call.trace[1].level = 1

(* ---------------------------- C13 --------------------------------------- *)
\* C13: squash_stream_destroy can be called in every state of the stream;
\* it calls the user-data destructor once if destructor and user_data are
\* both set and not at all otherwise, and it gives back the one reference
\* to the options the stream took, if it took one: after init and destroy
\* the reference count is what it was before init, whoever else holds the
\* options.
C13_DestroyReleasesOnce ==
  /\ ~destroyed /\ call = NoCallYet => ENABLED squash_stream_destroy
  /\ ~destroyed =>
       /\ destructor_calls = 0
       /\ ref_count = ref_before + (IF options # NULL THEN 1 ELSE 0)
  /\ destroyed =>
       /\ destructor_calls = (IF destroy_user_data # NULL /\ user_data # NULL THEN 1 ELSE 0)
       /\ ref_count = ref_before
       /\ options = NULL

\* a stream abandoned while Flushing, its options also held by two others:
\* the destructor ran once and the count is back at two
C13_Witness ==
  /\ destroyed
  /\ state = SQUASH_STREAM_STATE_FLUSHING
  /\ destructor_calls = 1
  /\ ref_before = 2 /\ ref_count = 2

====
